---------------------------- MODULE Spec2Model ----------------------------
(***************************************************************************)
(* Order statistics of cupy/statistics/order.py: amin, amax, nanmin,       *)
(* nanmax and percentile, as a state machine over one caller array.        *)
(*                                                                         *)
(* Arrays are views (shape, strides, base buffer) over a memory of flat   *)
(* buffers: "a" is the caller's storage, "w" the working copy.  Array      *)
(* elements of percentile inputs are small integers; results are floats    *)
(* kept exactly as a number of hundredths, or NaN.  Floating-point         *)
(* rounding is not modelled: every rank q * 0.01 * (Nx - 1) is exact.      *)
(***************************************************************************)
EXTENDS Integers, Sequences, FiniteSets

VARIABLES
    a,          \* the caller's array: a view on buffer "a"
    orig,       \* the contents of the caller's buffer when the call began
    mem,        \* the buffers: [a |-> caller's storage, w |-> working copy]
    pc,         \* position in the running function
    args,       \* the call's arguments: q, axis, interpolation, keepdims
    q,          \* percentile's q after promotion to 1-D
    zerod,      \* percentile's zerod flag
    keepdim,    \* percentile's keepdim shape
    ap,         \* percentile's working array (a view)
    nkeep,      \* percentile's nkeep
    indices,    \* percentile's indices: [int |-> is int32, v |-> values]
    ret,        \* the result array: [shape, data]
    err,        \* the exception raised, "none" when none
    steps,      \* the buffer work done so far, in order
    reads,      \* the raw positions of ap the blend kernel read, per output
    notices     \* the warnings emitted by the call

vars == <<a, orig, mem, pc, args, q, zerod, keepdim, ap, nkeep, indices,
          ret, err, steps, reads, notices>>

----------------------------------------------------------------------------
(* Bounds of the model.                                                    *)

MaxRank == 3
MaxDim == 3
MaxSize == 4
MaxVal == 1
MaxQLen == 2
MaxAxisLen == 2

\* The percents a call may ask for.
QVals == {0, 50, 100}

\* The interpolation strings a call may pass: the five named ones and a
\* string outside them.
Interpolations == {"linear", "lower", "higher", "midpoint", "nearest", "bogus"}

----------------------------------------------------------------------------
(* Floats: a finite number of hundredths, or NaN.                          *)

NaN == [nan |-> TRUE, v |-> 0]
Num(x) == [nan |-> FALSE, v |-> x]

\* x * w for an element x and a weight of w hundredths.  A non-finite x
\* gives NaN under a zero weight and stays non-finite otherwise.
FMul(x, w) == IF x.nan THEN NaN ELSE Num(x.v * w)

FAdd(x, y) == IF x.nan \/ y.nan THEN NaN ELSE Num(x.v + y.v)

\* IEEE comparison: false as soon as one side is NaN.
FLeq(x, y) == ~x.nan /\ ~y.nan /\ x.v <= y.v

----------------------------------------------------------------------------
(* Shapes, strides and views.                                              *)

RECURSIVE Prod(_)
Prod(s) == IF s = <<>> THEN 1 ELSE Head(s) * Prod(Tail(s))

Last(s) == s[Len(s)]
Front(s) == SubSeq(s, 1, Len(s) - 1)

\* Strides (in elements) of a C-contiguous array of this shape.
CStrides(shape) ==
    [i \in 1..Len(shape) |-> Prod(SubSeq(shape, i + 1, Len(shape)))]

\* The index tuple of the n-th element (n from 0) in C order.
Unravel(n, shape) ==
    LET st == CStrides(shape)
    IN  [i \in 1..Len(shape) |-> (n \div st[i]) % shape[i]]

RECURSIVE Dot(_, _)
Dot(idx, st) ==
    IF idx = <<>> THEN 0 ELSE Head(idx) * Head(st) + Dot(Tail(idx), Tail(st))

\* The elements of view v in C order, read from buffers m.
ReadC(v, m) ==
    [n \in 1..Prod(v.shape) |->
        m[v.base][Dot(Unravel(n - 1, v.shape), v.strides) + 1]]

Contiguous(shape, base) ==
    [shape |-> shape, strides |-> CStrides(shape), base |-> base]

\* Every shape of rank 1..MaxRank with axes of length 1..MaxDim whose size
\* is at most MaxSize.
RECURSIVE ShapesOfRank(_)
ShapesOfRank(r) ==
    IF r = 0 THEN {<<>>}
    ELSE {<<d>> \o s : d \in 1..MaxDim, s \in ShapesOfRank(r - 1)}

Shapes ==
    {s \in UNION {ShapesOfRank(r) : r \in 1..MaxRank} : Prod(s) <= MaxSize}

SeqsOf(S, n) == [1..n -> S]

----------------------------------------------------------------------------
(* ndarray methods used by percentile.                                     *)

\* a.swapaxes(i, j): a view with axes i and j exchanged (0-based).
swapaxes(v, i, j) ==
    [v EXCEPT !.shape = [@ EXCEPT ![i + 1] = v.shape[j + 1],
                                  ![j + 1] = v.shape[i + 1]],
              !.strides = [@ EXCEPT ![i + 1] = v.strides[j + 1],
                                    ![j + 1] = v.strides[i + 1]]]

\* a.ravel() of a C-contiguous array: a 1-D view of a's own buffer.
ravel(v, m) ==
    [view |-> [shape |-> <<Prod(v.shape)>>, strides |-> <<1>>,
               base |-> v.base],
     w |-> m.w]

\* a.flatten(): a new 1-D buffer holding a's elements in C order.
flatten(v, m) ==
    [view |-> Contiguous(<<Prod(v.shape)>>, "w"), w |-> ReadC(v, m)]

\* a.reshape(shape).copy(): a new C-contiguous buffer of the given shape.
reshape_copy(v, shape, m) ==
    [view |-> Contiguous(shape, "w"), w |-> ReadC(v, m)]

Insert(x, s) ==
    LET k == Cardinality({i \in 1..Len(s) : s[i] <= x})
    IN  SubSeq(s, 1, k) \o <<x>> \o SubSeq(s, k + 1, Len(s))

RECURSIVE SortAsc(_)
SortAsc(s) == IF s = <<>> THEN <<>> ELSE Insert(Head(s), SortAsc(Tail(s)))

\* ap.sort(axis=-1): every row of the last axis sorted ascending, in place
\* in the buffer the view reads.
sort(v, buf) ==
    LET lead == Front(v.shape)
        N == Last(v.shape)
        pos(r, t) == Dot(Unravel(r, lead), Front(v.strides))
                         + t * Last(v.strides) + 1
        row(r) == [t \in 1..N |-> buf[pos(r, t - 1)]]
        srow == [r \in 0..(Prod(lead) - 1) |-> SortAsc(row(r))]
        hit(p) == {rt \in (0..(Prod(lead) - 1)) \X (1..N) :
                       pos(rt[1], rt[2] - 1) = p}
    IN  [p \in 1..Len(buf) |->
            IF hit(p) = {} THEN buf[p]
            ELSE LET rt == CHOOSE x \in hit(p) : TRUE
                 IN  srow[rt[1]][rt[2]]]

----------------------------------------------------------------------------
(* The axis argument: None, an int, or a tuple of ints.                    *)

AxisNone == [kind |-> "none", v |-> 0, t |-> <<>>]
AxisInt(i) == [kind |-> "int", v |-> i, t |-> <<>>]
AxisTuple(t) == [kind |-> "tuple", v |-> 0, t |-> t]

\* The axis arguments tried on an array of rank nd: None, every int from
\* -(nd+1) to nd+1 (one past the valid range on each side), and tuples of
\* 1..MaxAxisLen indices from 0 to nd-1.
Axes(nd) ==
    {AxisNone}
    \cup {AxisInt(i) : i \in (0 - (nd + 1))..(nd + 1)}
    \cup {AxisTuple(t) :
            t \in UNION {SeqsOf(0..(nd - 1), n) : n \in 1..MaxAxisLen}}

\* The q arguments tried: a scalar, a vector of 1..MaxQLen percents, and a
\* 2-D array (whose content no line reads before the call fails).
QArgs ==
    {[nd |-> 0, v |-> <<x>>] : x \in QVals}
    \cup {[nd |-> 1, v |-> s] :
            s \in UNION {SeqsOf(QVals, n) : n \in 1..MaxQLen}}
    \cup {[nd |-> 2, v |-> <<>>]}

\* tuple(ax % a.ndim for ax in axis)
NormAxis(t, nd) == [i \in 1..Len(t) |-> t[i] % nd]

RECURSIVE SortedSeqOf(_)
SortedSeqOf(S) ==
    IF S = {} THEN <<>>
    ELSE LET m == CHOOSE x \in S : \A y \in S : x <= y
         IN  <<m>> \o SortedSeqOf(S \ {m})

\* sorted(set(range(a.ndim)) - set(axis))
SortedKeep(t, nd) ==
    SortedSeqOf((0..(nd - 1)) \ {t[i] : i \in 1..Len(t)})

\* The loop over the kept axes in descending order.
RECURSIVE SwapLoopDescending(_, _, _)
SwapLoopDescending(v, keep, i) ==
    IF i >= Len(keep) THEN v
    ELSE SwapLoopDescending(swapaxes(v, i, keep[Len(keep) - i]), keep, i + 1)

\* Lines 174-175:
\* for i, s in enumerate(sorted(keep)): a = a.swapaxes(i, s)
RECURSIVE SwapLoop(_, _, _)
SwapLoop(v, keep, i) ==
    IF i >= Len(keep) THEN v
    ELSE SwapLoop(swapaxes(v, i, keep[i + 1]), keep, i + 1)

Ones(n) == [i \in 1..n |-> 1]

\* Lines 158-161:
\* keepdim = list(a.shape); for ax in axis: keepdim[ax % a.ndim] = 1
KeepDimOf(shape, t) ==
    [i \in 1..Len(shape) |->
        IF \E j \in 1..Len(t) : t[j] % Len(shape) = i - 1 THEN 1
        ELSE shape[i]]

----------------------------------------------------------------------------
(* Initial states.                                                         *)

NoView == [shape |-> <<>>, strides |-> <<>>, base |-> "none"]
NoArray == [shape |-> <<>>, data |-> <<>>]
NoArgs == [fn |-> "", q |-> [nd |-> 0, v |-> <<>>], axis |-> AxisNone,
           interpolation |-> "", keepdims |-> FALSE]

Idle ==
    /\ pc = "idle"
    /\ args = NoArgs
    /\ q = <<>>
    /\ zerod = FALSE
    /\ keepdim = <<>>
    /\ ap = NoView
    /\ nkeep = 0
    /\ indices = [int |-> FALSE, v |-> <<>>]
    /\ ret = NoArray
    /\ err = "none"
    /\ steps = <<>>
    /\ reads = {}
    /\ notices = <<>>

Holds(shape, data) ==
    /\ a = Contiguous(shape, "a")
    /\ mem = [a |-> data, w |-> <<>>]
    /\ orig = data

\* n distinct elements in descending order: n, n-1, ..., 1.
Labels(n) == [i \in 1..n |-> n + 1 - i]

\* A caller array of any bounded shape holding distinct elements, none of
\* its rows sorted.
Init ==
    /\ \E shape \in Shapes : Holds(shape, Labels(Prod(shape)))
    /\ Idle

\* The calls of percentile tried on an array of rank nd: every combination
\* of the arguments.
Calls(nd) ==
    [fn : {"percentile"}, q : QArgs, axis : Axes(nd),
     interpolation : Interpolations, keepdims : BOOLEAN]

\* The calls that differ in how the working copy is made and in how the
\* call ends: every axis, every interpolation and both keepdims, with q the
\* scalar 50 or a 2-D array.
CopyCalls(nd) ==
    {c \in Calls(nd) : c.q \in {[nd |-> 0, v |-> <<50>>],
                                 [nd |-> 2, v |-> <<>>]}}

----------------------------------------------------------------------------
(* percentile, lines 120-230, by program point.                            *)

\* Lines 144-152: q is promoted to 1-D; a q of more than one dimension
\* raises ValueError.
percentile_q(call) ==
    /\ pc = "idle"
    /\ args' = call
    /\ q' = call.q.v
    /\ zerod' = (call.q.nd = 0)
    /\ IF call.q.nd > 1
       THEN pc' = "raised" /\ err' = "ValueError: q"
       ELSE pc' = "keepdim" /\ err' = err
    /\ UNCHANGED <<a, orig, mem, keepdim, ap, nkeep, indices, ret, steps,
                   reads, notices>>

\* Lines 154-161: the keepdims shape.  `for ax in axis` runs before the
\* int axis is wrapped into a tuple (line 164), so an int axis raises
\* TypeError here.
percentile_keepdim ==
    /\ pc = "keepdim"
    /\ IF ~args.keepdims
       THEN pc' = "copy" /\ UNCHANGED <<keepdim, err>>
       ELSE IF args.axis.kind = "none"
       THEN pc' = "copy" /\ keepdim' = Ones(Len(a.shape)) /\ err' = err
       ELSE IF args.axis.kind = "int"
       THEN pc' = "raised" /\ err' = "TypeError: int is not iterable"
            /\ UNCHANGED keepdim
       ELSE pc' = "copy" /\ keepdim' = KeepDimOf(a.shape, args.axis.t)
            /\ err' = err
    /\ UNCHANGED <<a, orig, mem, args, q, zerod, ap, nkeep, indices, ret,
                   steps, reads, notices>>

\* The shape a.shape[:nkeep] + (-1,) of line 176, the -1 resolved.
RowsShape(shape, n) ==
    SubSeq(shape, 1, n) \o <<Prod(shape) \div Prod(SubSeq(shape, 1, n))>>

\* Lines 164-176 with a.ravel() in place of a.flatten().
WorkingView(v, m, axis) ==
    LET nd == Len(v.shape)
        t == IF axis.kind = "int" THEN <<axis.v>> ELSE axis.t
        keep == SortedKeep(NormAxis(t, nd), nd)
        sw == SwapLoop(v, keep, 0)
    IN  IF axis.kind = "none"
        THEN [made |-> ravel(v, m), nkeep |-> 0]
        ELSE [made |-> reshape_copy(sw, RowsShape(sw.shape, Len(keep)), m),
              nkeep |-> Len(keep)]

\* Lines 164-176: ap, the working copy with the reduced axes flattened
\* into the last axis, and nkeep.
WorkingCopy(v, m, axis) ==
    LET nd == Len(v.shape)
        t == IF axis.kind = "int" THEN <<axis.v>> ELSE axis.t
        keep == SortedKeep(NormAxis(t, nd), nd)
        sw == SwapLoop(v, keep, 0)
    IN  IF axis.kind = "none"
        THEN [made |-> flatten(v, m), nkeep |-> 0]
        ELSE [made |-> reshape_copy(sw, RowsShape(sw.shape, Len(keep)), m),
              nkeep |-> Len(keep)]

\* Lines 163-176: the working copy, reduced axes last.
percentile_copy ==
    /\ pc = "copy"
    /\ LET wc == WorkingCopy(a, mem, args.axis)
       IN  /\ nkeep' = wc.nkeep
           /\ ap' = wc.made.view
           /\ mem' = [mem EXCEPT !.w = wc.made.w]
    /\ steps' = Append(steps, "copy")
    /\ pc' = "sort"
    /\ UNCHANGED <<a, orig, args, q, zerod, keepdim, indices, ret, err,
                   reads, notices>>

\* Lines 178-181: sort the last axis in place, then the ranks
\* q * 0.01 * (Nx - 1), kept in hundredths.
percentile_sort ==
    /\ pc = "sort"
    /\ mem' = [mem EXCEPT ![ap.base] = sort(ap, mem[ap.base])]
    /\ indices' = [int |-> FALSE,
                   v |-> [i \in 1..Len(q) |-> q[i] * (Last(ap.shape) - 1)]]
    /\ steps' = Append(steps, "sort")
    /\ pc' = "interp"
    /\ UNCHANGED <<a, orig, args, q, zerod, keepdim, ap, nkeep, ret, err,
                   reads, notices>>

Floor100(x) == x \div 100
Ceil100(x) == 0 - ((0 - x) \div 100)

\* Lines 183-198: the interpolation dispatch.
percentile_interp ==
    /\ pc = "interp"
    /\ LET iv == indices.v
           n == Len(iv)
       IN  CASE args.interpolation = "lower" ->
                  /\ indices' = [int |-> TRUE,
                                 v |-> [i \in 1..n |-> Floor100(iv[i])]]
                  /\ pc' = "gather" /\ err' = err
             [] args.interpolation = "higher" ->
                  /\ indices' = [int |-> TRUE,
                                 v |-> [i \in 1..n |-> Ceil100(iv[i])]]
                  /\ pc' = "gather" /\ err' = err
             [] args.interpolation = "midpoint" ->
                  /\ indices' = [int |-> FALSE,
                                 v |-> [i \in 1..n |->
                                    50 * (Floor100(iv[i]) + Ceil100(iv[i]))]]
                  /\ pc' = "gather" /\ err' = err
             [] args.interpolation = "nearest" ->
                  /\ pc' = "raised" /\ err' = "ValueError: nearest"
                  /\ UNCHANGED indices
             [] args.interpolation = "linear" ->
                  /\ pc' = "gather" /\ UNCHANGED <<indices, err>>
             [] OTHER ->
                  /\ pc' = "raised" /\ err' = "ValueError: interpolation"
                  /\ UNCHANGED indices
    /\ UNCHANGED <<a, orig, mem, args, q, zerod, keepdim, ap, nkeep, ret,
                   steps, reads, notices>>

\* cupy.rollaxis(x, -1): the last axis moved to the front.
rollaxis_last(arr) ==
    LET shape == <<Last(arr.shape)>> \o Front(arr.shape)
    IN  [shape |-> shape,
         data |-> [n \in 1..Prod(shape) |->
                     LET idx == Unravel(n - 1, shape)
                     IN  arr.data[Dot(Tail(idx) \o <<Head(idx)>>,
                                      CStrides(arr.shape)) + 1]]]

\* x.take(indices, axis=0)
take0(arr, ind) ==
    LET block == Prod(Tail(arr.shape))
    IN  [shape |-> <<Len(ind)>> \o Tail(arr.shape),
         data |-> [n \in 1..(Len(ind) * block) |->
                     arr.data[ind[((n - 1) \div block) + 1] * block
                                + ((n - 1) % block) + 1]]]

\* What a raw read of ap's buffer at position p (from 0) yields: the
\* element there, or, past the end of the buffer, whatever g is.
RawRead(buf, p, g) == IF p < Len(buf) THEN Num(buf[p + 1]) ELSE g

\* _ind.get()[0] * offset, the kernel's row offset for output index ind.
KernelOffset(ind, offset) == ind[1] * offset

\* The two raw positions the percentile_weightnening kernel reads for the
\* output element of index ind (lines 212-217).
KernelReads(ind, idx, offset) ==
    LET idx_below == Floor100(idx)
        offset_i == KernelOffset(ind, offset)
    IN  <<offset_i + idx_below, offset_i + idx_below + 1>>

\* Lines 209-220: the percentile_weightnening kernel over ret of shape
\* ap.shape[:-1] + q.shape, indices broadcast along the last axis.
Kernel(buf, apshape, ind, g) ==
    LET shape == Front(apshape) \o <<Len(ind)>>
        offset == IF Len(apshape) > 1 THEN Last(apshape) ELSE 0
    IN  [shape |-> shape,
         data |-> [n \in 1..Prod(shape) |->
                     LET i == Unravel(n - 1, shape)
                         idx == ind[Last(i) + 1]
                         weight_above == idx - 100 * Floor100(idx)
                         rd == KernelReads(i, idx, offset)
                     IN  FAdd(FMul(RawRead(buf, rd[1], g),
                                   100 - weight_above),
                              FMul(RawRead(buf, rd[2], g), weight_above))]]

KernelReadSet(apshape, ind) ==
    LET shape == Front(apshape) \o <<Len(ind)>>
        offset == IF Len(apshape) > 1 THEN Last(apshape) ELSE 0
    IN  UNION {LET i == Unravel(n, shape)
                   rd == KernelReads(i, ind[Last(i) + 1], offset)
               IN  {[out |-> n, pos |-> rd[1]], [out |-> n, pos |-> rd[2]]}
               : n \in 0..(Prod(shape) - 1)}

\* What a read past the end of the working buffer may yield: some finite
\* number, or a non-finite bit pattern (its product with a zero weight is
\* NaN).
Garbage == {Num(0), NaN}

\* Lines 200-221: gather by integer index, or blend two neighbours.
percentile_gather ==
    /\ pc = "gather"
    /\ IF indices.int
       THEN /\ ret' = LET r == take0(rollaxis_last(
                                      [shape |-> ap.shape,
                                       data |-> ReadC(ap, mem)]),
                                    indices.v)
                      IN  [r EXCEPT !.data =
                              [n \in DOMAIN r.data |-> Num(100 * r.data[n])]]
            /\ UNCHANGED reads
       ELSE /\ reads' = KernelReadSet(ap.shape, indices.v)
            /\ \E g \in Garbage :
                 /\ g = Num(0) \/ \E r \in reads' : r.pos >= Len(mem[ap.base])
                 /\ ret' = rollaxis_last(
                             Kernel(mem[ap.base], ap.shape, indices.v, g))
    /\ pc' = "finish"
    /\ UNCHANGED <<a, orig, mem, args, q, zerod, keepdim, ap, nkeep, indices,
                   err, steps, notices>>

\* Lines 223-230: drop the q axis of a scalar q, apply keepdims.
percentile_finish ==
    /\ pc = "finish"
    /\ LET r1 == IF zerod THEN [ret EXCEPT !.shape = Tail(@)] ELSE ret
           size == Len(r1.data)
           kd == IF Len(q) > 1
                 THEN <<size \div Prod(keepdim)>> \o keepdim
                 ELSE keepdim
       IN  IF ~args.keepdims
           THEN ret' = r1 /\ pc' = "done" /\ err' = err
           ELSE IF Prod(kd) = size
           THEN ret' = [r1 EXCEPT !.shape = kd] /\ pc' = "done" /\ err' = err
           ELSE ret' = NoArray /\ pc' = "raised"
                /\ err' = "ValueError: reshape"
    /\ UNCHANGED <<a, orig, mem, args, q, zerod, keepdim, ap, nkeep, indices,
                   steps, reads, notices>>

Next ==
    \/ pc = "idle" /\ \E call \in Calls(Len(a.shape)) : percentile_q(call)
    \/ percentile_keepdim
    \/ percentile_copy
    \/ percentile_sort
    \/ percentile_interp
    \/ percentile_gather
    \/ percentile_finish

Spec == Init /\ [][Next]_vars

NextCopy ==
    \/ pc = "idle"
         /\ \E call \in CopyCalls(Len(a.shape)) : percentile_q(call)
    \/ percentile_keepdim
    \/ percentile_copy
    \/ percentile_sort
    \/ percentile_interp
    \/ percentile_gather
    \/ percentile_finish

SpecCopy == Init /\ [][NextCopy]_vars

----------------------------------------------------------------------------
(* The base reducers, which this file calls and does not define.           *)

\* The axes a reduction over `axis` collapses, 0-based.
ReducedAxes(axis, nd) ==
    CASE axis.kind = "none" -> 0..(nd - 1)
      [] axis.kind = "int" -> {axis.v % nd}
      [] OTHER -> {axis.t[i] % nd : i \in 1..Len(axis.t)}

KeptAxes(red, nd) == SortedSeqOf((0..(nd - 1)) \ red)

KeptShape(shape, red) ==
    LET keep == KeptAxes(red, Len(shape))
    IN  [i \in 1..Len(keep) |-> shape[keep[i] + 1]]

\* For each index tuple of the kept axes, in C order, the elements of the
\* array whose kept indices are that tuple (its reduced slice).
Slices(shape, data, red) ==
    LET keep == KeptAxes(red, Len(shape))
        kshape == KeptShape(shape, red)
        members(k) ==
            {n \in 1..Prod(shape) :
                \A i \in 1..Len(keep) :
                    Unravel(n - 1, shape)[keep[i] + 1] = Unravel(k, kshape)[i]}
    IN  [k1 \in 1..Prod(kshape) |->
            LET ns == SortedSeqOf(members(k1 - 1))
            IN  [j \in 1..Len(ns) |-> data[ns[j]]]]

ReducedShape(shape, red, keepdims) ==
    IF keepdims
    THEN [i \in 1..Len(shape) |-> IF (i - 1) \in red THEN 1 ELSE shape[i]]
    ELSE KeptShape(shape, red)

SetMin(S) == CHOOSE x \in S : \A y \in S : x <= y
SetMax(S) == CHOOSE x \in S : \A y \in S : y <= x
Range(f) == {f[i] : i \in DOMAIN f}

\* ndarray.min / ndarray.max over the reduced axes.
ndarray_min(v, m, axis, keepdims) ==
    LET red == ReducedAxes(axis, Len(v.shape))
        sl == Slices(v.shape, ReadC(v, m), red)
    IN  [shape |-> ReducedShape(v.shape, red, keepdims),
         data |-> [k \in DOMAIN sl |-> SetMin(Range(sl[k]))]]

ndarray_max(v, m, axis, keepdims) ==
    LET red == ReducedAxes(axis, Len(v.shape))
        sl == Slices(v.shape, ReadC(v, m), red)
    IN  [shape |-> ReducedShape(v.shape, red, keepdims),
         data |-> [k \in DOMAIN sl |-> SetMax(Range(sl[k]))]]

\* Line 34 and line 62: amin and amax pass straight through.
amin(v, m, axis, keepdims) == ndarray_min(v, m, axis, keepdims)
amax(v, m, axis, keepdims) == ndarray_max(v, m, axis, keepdims)

Finite(sl) == {sl[i].v : i \in {j \in DOMAIN sl : ~sl[j].nan}}

\* core.nanmin / core.nanmax: the reduction that ignores NaN; a slice
\* holding only NaN reduces to NaN.
core_nanmin(v, m, axis, keepdims) ==
    LET red == ReducedAxes(axis, Len(v.shape))
        sl == Slices(v.shape, ReadC(v, m), red)
    IN  [shape |-> ReducedShape(v.shape, red, keepdims),
         data |-> [k \in DOMAIN sl |->
                     IF Finite(sl[k]) = {} THEN NaN
                     ELSE Num(SetMin(Finite(sl[k])))]]

core_nanmax(v, m, axis, keepdims) ==
    LET red == ReducedAxes(axis, Len(v.shape))
        sl == Slices(v.shape, ReadC(v, m), red)
    IN  [shape |-> ReducedShape(v.shape, red, keepdims),
         data |-> [k \in DOMAIN sl |->
                     IF Finite(sl[k]) = {} THEN NaN
                     ELSE Num(SetMax(Finite(sl[k])))]]

----------------------------------------------------------------------------
(* nanmin and nanmax, lines 65-114.                                        *)

AllNaNSlice == "All-NaN slice encountered"

WarnPerNaN(res) ==
    [i \in 1..Cardinality({k \in DOMAIN res.data : res.data[k].nan})
        |-> AllNaNSlice]

\* Lines 86-87: if content.isnan(res).any(): warnings.warn(...)
nanmin_warn(res) ==
    IF \E k \in DOMAIN res.data : res.data[k].nan THEN <<AllNaNSlice>>
    ELSE <<>>

\* Lines 112-113, the same test in nanmax.
nanmax_warn(res) ==
    IF \E k \in DOMAIN res.data : res.data[k].nan THEN <<AllNaNSlice>>
    ELSE <<>>

NanCall(fn, axis, keepdims) ==
    [fn |-> fn, q |-> NoArgs.q, axis |-> axis, interpolation |-> "",
     keepdims |-> keepdims]

\* Lines 85-88.
nanmin(axis, keepdims) ==
    /\ pc = "idle"
    /\ args' = NanCall("nanmin", axis, keepdims)
    /\ LET res == core_nanmin(a, mem, axis, keepdims)
       IN  /\ notices' = notices \o nanmin_warn(res)
           /\ ret' = res
    /\ pc' = "done"
    /\ UNCHANGED <<a, orig, mem, q, zerod, keepdim, ap, nkeep, indices, err,
                   steps, reads>>

\* Lines 111-114.
nanmax(axis, keepdims) ==
    /\ pc = "idle"
    /\ args' = NanCall("nanmax", axis, keepdims)
    /\ LET res == core_nanmax(a, mem, axis, keepdims)
       IN  /\ notices' = notices \o nanmax_warn(res)
           /\ ret' = res
    /\ pc' = "done"
    /\ UNCHANGED <<a, orig, mem, q, zerod, keepdim, ap, nkeep, indices, err,
                   steps, reads>>

\* The axis arguments of nanmin and nanmax: None or a valid int.
NanAxes(nd) == {AxisNone} \cup {AxisInt(i) : i \in (0 - nd)..(nd - 1)}

\* A caller array of any bounded shape whose elements are NaN or a number
\* in 0..MaxVal.
InitNan ==
    /\ \E shape \in Shapes :
         \E data \in SeqsOf({NaN} \cup {Num(x) : x \in 0..MaxVal},
                            Prod(shape)) : Holds(shape, data)
    /\ Idle

NextNan ==
    \/ pc = "idle"
         /\ \E axis \in NanAxes(Len(a.shape)), keepdims \in BOOLEAN :
              nanmin(axis, keepdims)
    \/ pc = "idle"
         /\ \E axis \in NanAxes(Len(a.shape)), keepdims \in BOOLEAN :
              nanmax(axis, keepdims)

SpecNan == InitNan /\ [][NextNan]_vars

----------------------------------------------------------------------------
(* The claims.                                                             *)

Supported == {"linear", "lower", "higher", "midpoint"}

Finished == pc \in {"done", "raised"}

\* An axis argument numpy's contract accepts: None, or indices within
\* -ndim..ndim-1 that name distinct axes.
ValidAxis(axis, nd) ==
    CASE axis.kind = "none" -> TRUE
      [] axis.kind = "int" -> axis.v \in (0 - nd)..(nd - 1)
      [] OTHER ->
           /\ \A i \in 1..Len(axis.t) : axis.t[i] \in (0 - nd)..(nd - 1)
           /\ \A i, j \in 1..Len(axis.t) :
                i # j => axis.t[i] % nd # axis.t[j] % nd

Scaled(arr) == [n \in DOMAIN arr.data |-> Num(100 * arr.data[n])]

\* The reduced slices of the caller's array as it was when the call began.
CallSlices ==
    Slices(a.shape, orig, ReducedAxes(args.axis, Len(a.shape)))

\* The rank, in hundredths, the interpolation maps percent x to over a row
\* of length N.
RankOf(x, N) ==
    LET r == x * (N - 1)
    IN  IF args.interpolation = "midpoint"
        THEN 50 * (Floor100(r) + Ceil100(r))
        ELSE r

\* C1: under 'linear', percentile(a, 0, axis) equals amin(a, axis) and
\* percentile(a, 100, axis) equals amax(a, axis), element for element,
\* for every valid axis, arrays that keep two or more axes included.
C1_MinMax ==
    (/\ pc = "done"
     /\ args.fn = "percentile"
     /\ args.interpolation = "linear"
     /\ ~args.keepdims
     /\ args.q.nd = 0
     /\ ValidAxis(args.axis, Len(a.shape)))
    => /\ q[1] = 0 =>
            ret.data = Scaled(amin(a, [a |-> orig], args.axis, FALSE))
       /\ q[1] = 100 =>
            ret.data = Scaled(amax(a, [a |-> orig], args.axis, FALSE))

C3_ReadsInsideRow ==
    \A r \in reads :
        LET N == Last(ap.shape)
            k == r.out \div Len(q)
        IN  k * N <= r.pos /\ r.pos <= k * N + N - 1

\* C4: with keepdims=True, a valid axis (None, an int, a tuple) and a
\* supported interpolation, percentile returns an array whose shape is
\* a's shape with every reduced axis set to 1, preceded by len(q) when q
\* is a vector of any length >= 1.
C4_KeepdimsShape ==
    (/\ Finished
     /\ args.fn = "percentile"
     /\ args.keepdims
     /\ args.q.nd <= 1
     /\ args.interpolation \in Supported
     /\ ValidAxis(args.axis, Len(a.shape)))
    => /\ pc = "done"
       /\ ret.shape =
            (IF args.q.nd = 1 THEN <<Len(args.q.v)>> ELSE <<>>)
              \o ReducedShape(a.shape,
                              ReducedAxes(args.axis, Len(a.shape)), TRUE)

ListedErrors ==
    {"ValueError: q", "ValueError: nearest", "ValueError: interpolation"}

\* C5: when percentile fails with a listed error (q of more than one
\* dimension, 'nearest', an unknown interpolation), no working buffer has
\* been allocated or sorted at the moment the error is raised.
C5_ErrorsBeforeWork ==
    (pc = "raised" /\ err \in ListedErrors)
    => steps = <<>> /\ mem.w = <<>>

AxisIndices(axis) ==
    CASE axis.kind = "none" -> {}
      [] axis.kind = "int" -> {axis.v}
      [] OTHER -> Range(axis.t)

\* C6: percentile fails, and returns no result, whenever the axis argument
\* holds an index whose magnitude exceeds ndim.
C6_AxisOutOfRangeFails ==
    (/\ Finished
     /\ args.fn = "percentile"
     /\ \E ax \in AxisIndices(args.axis) :
          ax > Len(a.shape) \/ 0 - ax > Len(a.shape))
    => pc = "raised"

\* C7: a call of nanmin or nanmax emits exactly one 'All-NaN slice
\* encountered' notice when some element of the base reducer's result is
\* NaN, however many are, and none otherwise; it returns the base
\* reducer's result unchanged and raises nothing.
C7_OneNoticePerCall ==
    (pc = "done" /\ args.fn \in {"nanmin", "nanmax"})
    => LET base == IF args.fn = "nanmin"
                   THEN core_nanmin(a, mem, args.axis, args.keepdims)
                   ELSE core_nanmax(a, mem, args.axis, args.keepdims)
       IN  /\ err = "none"
           /\ ret = base
           /\ notices = (IF \E k \in DOMAIN base.data : base.data[k].nan
                         THEN <<AllNaNSlice>> ELSE <<>>)

\* A nanmin call has returned a result with two NaN elements and emitted
\* one notice.
C7_Witness ==
    /\ pc = "done"
    /\ args.fn = "nanmin"
    /\ Cardinality({k \in DOMAIN ret.data : ret.data[k].nan}) >= 2
    /\ \E k \in DOMAIN ret.data : ~ret.data[k].nan
    /\ Len(notices) = 1

\* C8: at every point of a call to percentile, and after it returns or
\* raises, the caller's array has the shape and the elements it had
\* before the call; the sort touches only the working copy.
C8_InputUnchanged ==
    /\ mem.a = orig
    /\ a = Contiguous(a.shape, "a")
    /\ Len(orig) = Prod(a.shape)
    /\ pc \notin {"idle", "keepdim", "copy"} /\ steps # <<>>
         => ap.base = "w"

\* percentile has returned after sorting a working copy whose order
\* differs from the caller's array, reduced along one axis of a 2-D array.
C8_Witness ==
    /\ pc = "done"
    /\ args.fn = "percentile"
    /\ args.axis.kind = "int"
    /\ Len(a.shape) = 2
    /\ steps = <<"copy", "sort">>
    /\ mem.w # ReadC(ap, [w |-> orig])
    /\ mem.w # orig

\* C9: for a fixed axis and a fixed supported interpolation, and
\* q1 <= q2, each element of percentile(a, q1, axis) is less than or equal
\* to the corresponding element of percentile(a, q2, axis).
C9_MonotoneInQ ==
    (/\ pc = "done"
     /\ args.fn = "percentile"
     /\ args.q.nd = 1
     /\ Len(q) = 2
     /\ q[1] <= q[2])
    => LET K == Len(ret.data) \div 2
       IN  \A k \in 1..K : FLeq(ret.data[k], ret.data[K + k])

\* C10: for a non-None axis, after the swap loop and the reshape the
\* working buffer's leading axes are the kept axes in their original
\* order, its last axis has length N = the product of the reduced axes'
\* lengths, and the row of each kept index holds exactly the elements of
\* that index's reduced slice of the input, as a multiset.
C10_KeptFirstReducedLast ==
    (/\ args.fn = "percentile"
     /\ args.axis.kind # "none"
     /\ steps # <<>>)
    => LET red == ReducedAxes(args.axis, Len(a.shape))
           kshape == KeptShape(a.shape, red)
           N == Prod([i \in 1..Len(a.shape) |->
                        IF (i - 1) \in red THEN a.shape[i] ELSE 1])
           sl == CallSlices
       IN  /\ nkeep = Len(kshape)
           /\ ap.shape = kshape \o <<N>>
           /\ Len(mem.w) = Prod(kshape) * N
           /\ \A k \in 1..Prod(kshape) :
                SortAsc(SubSeq(mem.w, (k - 1) * N + 1, k * N))
                  = SortAsc(sl[k])

\* The working copy of a rank-3 array reduced along its first axis has
\* just been made: both kept axes were swapped forward.
C10_Witness ==
    /\ pc = "sort"
    /\ args.fn = "percentile"
    /\ args.axis = AxisInt(0)
    /\ Len(a.shape) = 3
    /\ a.shape[1] > 1 /\ a.shape[2] > 1
    /\ nkeep = 2
    /\ mem.w # orig

=============================================================================
